---- MODULE Spec2Model ----
(***************************************************************************)
(* unix-exec-output-catcher: a child process is forked, its standard       *)
(* streams are redirected onto pipes, and the parent drains the pipes line *)
(* by line while polling the child's state with a non-blocking waitpid.    *)
(*                                                                         *)
(* The model covers ChildProcess (child.rs), Pipe (pipe.rs), the two       *)
(* readers (reader.rs), libc_ret_to_result (libc_util.rs), the kernel side *)
(* of a pipe and of a process (buffers, descriptor holders, wait status)   *)
(* and the child program as an environment.                                *)
(***************************************************************************)
EXTENDS Integers, Sequences, FiniteSets, TLC

\* ------------------------------------------------------------------ bounds
\* Total number of bytes the child program writes during one behaviour.
MaxBytes == 3
\* Capacity of a kernel pipe buffer (a writer blocks on a full pipe).
PipeCap == 2
\* Largest value the monotonic clock behind Instant::now() takes.
MaxTime == 1
\* Number of fork() calls that may succeed (pids 1..MaxForks).
MaxForks == 2
\* Bytes the child writes in the specification with fairness.
MaxLiveBytes == 2
\* Number of read_line calls made on one pipe when Pipe is used directly.
MaxCalls == 3

\* ------------------------------------------------------- values and types
\* The newline byte compared against in Pipe::read_line.
NL == 10
\* Bytes the child program may write: the newline and one other character.
Bytes == {NL, 97}

\* Option<T>
None == <<>>
Some(x) == <<x>>
\* Result<T, E>
Ok(v) == <<"Ok", v>>
Err(e) == <<"Err", e>>
IsErr(r) == r[1] = "Err"
IsOk(r) == r[1] = "Ok"
Unit == <<>>

\* enum ProcessState
Ready == <<"Ready">>
Running == <<"Running">>
FinishedSuccess == <<"FinishedSuccess">>
FinishedError(c) == <<"FinishedError", c>>

\* enum OCatchStrategy
StdCombined == "StdCombined"
StdSeparately == "StdSeparately"

\* errno values the modelled system calls fail with
EBADF == {9}
ForkErrnos == {11, 12}
InjectedErrno(syscall) ==
    CASE syscall = "Close" -> 5
      [] syscall = "Dup2" -> 4
      [] syscall = "Read" -> 5
      [] syscall = "Execvp" -> 2
      [] syscall = "Waitpid" -> 10
      [] OTHER -> 11

\* The two kernel pipes a capture may own. CatchPipes::Combined owns pipe 1
\* only; CatchPipes::Separately owns pipe 1 (stdout) and pipe 2 (stderr).
PipeIds == {1, 2}
PipesOf(strat) == IF strat = StdCombined THEN {1} ELSE {1, 2}
\* ChildProcess.stdout_pipe and ChildProcess.stderr_pipe: with the combined
\* strategy both fields refer to the same pipe.
stdout_pipe(strat) == 1
stderr_pipe(strat) == IF strat = StdCombined THEN 1 ELSE 2

Pids == 1..MaxForks
Streams == {"out", "err"}
\* The reader tasks: the single loop of SimpleOutputReader and the two
\* threads of SimultaneousOutputReader.
Tasks == {"combined", "stdout", "stderr"}
TasksOf(strat) == IF strat = StdCombined THEN {"combined"} ELSE {"stdout", "stderr"}

\* Faulty variant: the two threads are handed each other's pipe.
PipeOfTask_swapped(strat, t) == IF t = "stderr" THEN stdout_pipe(strat) ELSE stderr_pipe(strat)
\* The pipe a reader task drains: SimpleOutputReader::new takes stdout_pipe,
\* read_all_bl hands stdout_pipe and stderr_pipe to the two threads.
PipeOfTask(strat, t) == IF t = "stderr" THEN stderr_pipe(strat) ELSE stdout_pipe(strat)

\* ---------------------------------------------------------------- libc
\* Faulty variant: a return value of -1 is not recognised as a failure.
libc_ret_to_result_ignores_failure(res, syscall, errno) == Ok(Unit)

syscall_to_uecoerror(syscall, errno) ==
    CASE syscall = "Fork" -> <<"ForkFailed", errno>>
      [] syscall = "Pipe" -> <<"PipeFailed", errno>>
      [] syscall = "Dup2" -> <<"Dup2Failed", errno>>
      [] syscall = "Close" -> <<"CloseFailed", errno>>
      [] syscall = "Read" -> <<"ReadFailed", errno>>
      [] syscall = "Execvp" -> <<"ExecvpFailed", errno>>
      [] syscall = "Waitpid" -> <<"WaitpidFailed", errno>>

libc_ret_to_result(res, syscall, errno) ==
    IF res = 0 THEN Ok(Unit)
    ELSE IF res = -1 THEN Err(syscall_to_uecoerror(syscall, errno))
    ELSE Ok(Unit)

\* Wait status as the kernel encodes it: the exit code in bits 8..15 for a
\* normal exit, the signal number in bits 0..6 for a death by signal.
ExitStatus(n) == n * 256
SignalStatus(sig) == sig
WIFEXITED(status) == status % 128 = 0
WIFSIGNALED(status) == (status % 128) # 0 /\ (status % 128) # 127

\* Faulty variant: the exit status is masked with 0x7f instead of 0xff.
WEXITSTATUS_7bit(status) == (status \div 256) % 128

WEXITSTATUS(status) == (status \div 256) % 256

\* ------------------------------------------------------------------ state
VARIABLES
    strategy,   \* OCatchStrategy of this capture
    gpc,        \* where the caller of the library is: start, reading, ...
    result,     \* Option<Result<ProcessOutput, UECOError>> returned to the caller
    state,      \* ChildProcess.state
    pid,        \* ChildProcess.pid : Option<pid_t>
    exit_code,  \* ChildProcess.exit_code : Option<i32>
    dres,       \* what the last dispatch() returned in the parent
    pipes,      \* the parent's Pipe objects: end, read_fd open, write_fd open
    buf,        \* kernel buffer of each pipe
    procs,      \* kernel process table entry and address space of each child
    task,       \* the reader tasks
    lastInstant,\* latest value the monotonic clock has returned
    wrote,      \* every <<stream, byte>> the child program wrote, in order
    hooks,      \* how often each dispatch hook has been invoked, and how
                \* often the child's hook was invoked in the parent
    sys         \* bookkeeping of system calls: last fork() result, waitpid calls
                \* (one made after the child was reaped, one that failed),
                \* whether the Mutex of the shared ChildProcess is poisoned;
                \* `lock`: the thread inside check_state_nbl, holding the
                \* Mutex, where the call is modelled in two steps;
                \* `first`: what an earlier capture of the same program
                \* returned, with what the child wrote and its exit code;
                \* of the direct calls of check_state_nbl: a bit that flips
                \* with each call, what the last call returned and whether
                \* it called waitpid

vars == <<strategy, gpc, result, state, pid, exit_code, dres, pipes, buf,
          procs, task, lastInstant, wrote, hooks, sys>>

NoPipe == [end |-> None, read_fd |-> FALSE, write_fd |-> FALSE]
\* Pipe::new: both descriptors open, the end not yet assigned.
NewPipe == [end |-> None, read_fd |-> TRUE, write_fd |-> TRUE]

\* A child: its place in its life, how it ended (<<"exit", n>> or
\* <<"signal", sig>>), its wait status, its copy of the Pipe objects, the
\* pipes its stdout and stderr are redirected onto, and what dispatch
\* returned in it. `ran` lists what dispatch has executed in this copy: each
\* hook with whether it succeeded, and the execvp call.
NoProc == [pc |-> "none", how |-> None, status |-> 0,
           pipes |-> [p \in PipeIds |-> NoPipe],
           out |-> 0, err |-> 0, dres |-> None, ran |-> <<>>]

IdleTask == [pc |-> "idle", chars |-> <<>>, line |-> None, lines |-> <<>>,
             eof |-> FALSE, res |-> None]

\* No system call made yet, no capture completed yet.
NoSys == [fork |-> 0, errno |-> 0, waitpid_after_reap |-> 0,
          waitpid_failed |-> FALSE, poisoned |-> FALSE,
          api_tick |-> FALSE, api_ret |-> None, api_queried |-> FALSE,
          first |-> None, lock |-> None]

\* ChildProcess::new after CatchPipes::new(strat)
InitFor(strat) ==
    /\ strategy = strat
    /\ gpc = "start"
    /\ result = None
    /\ state = Ready
    /\ pid = None
    /\ exit_code = None
    /\ dres = None
    /\ pipes = [p \in PipeIds |-> IF p \in PipesOf(strat) THEN NewPipe ELSE NoPipe]
    /\ buf = [p \in PipeIds |-> <<>>]
    /\ procs = [c \in Pids |-> NoProc]
    /\ task = [t \in Tasks |-> IdleTask]
    /\ lastInstant = 0
    /\ wrote = <<>>
    /\ hooks = [parent |-> 0, child |-> 0, child_in_parent |-> 0]
    /\ sys = NoSys

Init == \E strat \in {StdCombined, StdSeparately} : InitFor(strat)

\* ------------------------------------------------------------ kernel view
Alive(c) == procs[c].pc \in {"hook", "exec", "run", "escaped"}
\* A process holds the write end of pipe p through its copy of write_fd or
\* through a standard stream redirected onto it.
ChildHoldsWriteEnd(c, p) ==
    /\ Alive(c)
    /\ (procs[c].pipes[p].write_fd \/ procs[c].out = p \/ procs[c].err = p)
HasWriter(p) == pipes[p].write_fd \/ \E c \in Pids : ChildHoldsWriteEnd(c, p)
NextPid == Cardinality({c \in Pids : procs[c].pc # "none"}) + 1
\* How the child of the handle ended: <<"exit", n>> or <<"signal", sig>>.
TheChildHow == procs[pid[1]].how[1]

\* -------------------------------------------------------------- pipe.rs
\* Pipe::close_fd on the descriptor `which` of pipe p in the address space
\* whose Pipe objects are P. close() of a descriptor that is not open fails
\* with EBADF; `inj` makes an open descriptor's close fail (the descriptor
\* is released all the same).
close_fd(P, p, which, inj) ==
    LET open == P[p][which]
        ret == IF open /\ ~inj THEN 0 ELSE -1
        errno == IF open THEN InjectedErrno("Close") ELSE CHOOSE e \in EBADF : TRUE
    IN [pipes |-> [P EXCEPT ![p][which] = FALSE],
        res |-> libc_ret_to_result(ret, "Close", errno)]

\* Faulty variant: the parent marks the pipe and keeps its write descriptor open.
mark_as_parent_process_keeps_write_fd(P, p, inj) ==
    [pipes |-> [P EXCEPT ![p].end = Some("Read")], res |-> Ok(Unit)]

mark_as_parent_process(P, p, inj) ==
    close_fd([P EXCEPT ![p].end = Some("Read")], p, "write_fd", inj)

\* Faulty variant: the child marks the pipe and closes its write descriptor.
mark_as_child_process_closes_write_fd(P, p, inj) ==
    close_fd([P EXCEPT ![p].end = Some("Write")], p, "write_fd", inj)

mark_as_child_process(P, p, inj) ==
    close_fd([P EXCEPT ![p].end = Some("Write")], p, "read_fd", inj)

\* Pipe::connect_to_stdout / connect_to_stderr in the child c (a process
\* record): dup2(write_fd, stream).
connect_to(c, p, stream, inj) ==
    LET open == c.pipes[p].write_fd
        ret == IF open /\ ~inj THEN 1 ELSE -1
        errno == IF open THEN InjectedErrno("Dup2") ELSE CHOOSE e \in EBADF : TRUE
        r == libc_ret_to_result(ret, "Dup2", errno)
    IN [proc |-> IF IsOk(r) THEN [c EXCEPT ![stream] = p] ELSE c, res |-> r]

\* -------------------------------------------------------------- exec.rs
\* parent_setup_pipes: both pipes are marked as read end. `f` = k makes
\* the k-th close() fail.
parent_setup_pipes(P, f) ==
    LET r1 == mark_as_parent_process(P, 1, f = 1)
    IN IF IsErr(r1.res) THEN r1
       ELSE mark_as_parent_process(r1.pipes, 2, f = 2)

\* child_setup_pipes: both pipes are marked as write end, then stdout and
\* stderr are redirected onto their write descriptors. `f` = k makes the
\* k-th system call fail.
child_setup_pipes(c, f) ==
    LET m1 == mark_as_child_process(c.pipes, 1, f = 1)
        m2 == IF IsErr(m1.res) THEN m1
              ELSE mark_as_child_process(m1.pipes, 2, f = 2)
        c2 == [c EXCEPT !.pipes = m2.pipes]
        d1 == connect_to(c2, 1, "out", f = 3)
        d2 == connect_to(d1.proc, 2, "err", f = 4)
    IN IF IsErr(m2.res) THEN [proc |-> c2, res |-> m2.res]
       ELSE IF IsErr(d1.res) THEN d1
       ELSE d2

\* ChildProcess.parent_after_dispatch_fn, the hook dispatch runs in the
\* parent. With the separate strategy it is parent_setup_pipes; with the
\* combined strategy the one pipe is marked as read end.
parent_after_dispatch_fn(P, strat, f) ==
    IF strat = StdCombined THEN mark_as_parent_process(P, stdout_pipe(strat), f = 1)
    ELSE parent_setup_pipes(P, f)

\* ChildProcess.child_after_dispatch_before_exec_fn, the hook dispatch runs in
\* the child before exec(). With the separate strategy it is
\* child_setup_pipes; with the combined strategy the one pipe is marked as
\* write end and both stdout and stderr are redirected onto it.
child_after_dispatch_before_exec_fn(c, strat, f) ==
    IF strat = StdCombined
    THEN LET m1 == mark_as_child_process(c.pipes, stdout_pipe(strat), f = 1)
             c2 == [c EXCEPT !.pipes = m1.pipes]
             d1 == connect_to(c2, stdout_pipe(strat), "out", f = 3)
             d2 == connect_to(d1.proc, stderr_pipe(strat), "err", f = 4)
         IN IF IsErr(m1.res) THEN [proc |-> c2, res |-> m1.res]
            ELSE IF IsErr(d1.res) THEN d1
            ELSE d2
    ELSE child_setup_pipes(c, f)

\* execvp() returns only when it failed; exec() hands its return value to
\* libc_ret_to_result.
exec_failed == libc_ret_to_result(-1, "Execvp", InjectedErrno("Execvp"))

\* ------------------------------------------------------------- child.rs
\* The address space the child starts with: a copy of the parent's at the
\* moment of fork(), the standard streams not yet redirected.
ForkedChild ==
    [pc |-> "hook", how |-> None, status |-> 0, pipes |-> pipes, out |-> 0,
     err |-> 0, dres |-> None, ran |-> <<>>]

\* Faulty variant: the two branches of dispatch are exchanged.
dispatch_branch_exchanged(fork_ret) == IF fork_ret = 0 THEN "parent" ELSE "child"

\* `if pid == 0 { child } else { parent }` on the value fork() returned in
\* this copy of the process.
dispatch_branch(fork_ret) == IF fork_ret = 0 THEN "child" ELSE "parent"

\* What dispatch returns in the child when exec() came back.
dispatch_after_exec(r) == IF IsErr(r) THEN r ELSE Err(<<"Unknown">>)

\* ChildProcess::dispatch as the parent sees it. `ret` is what fork()
\* returns in the parent (-1 or the new pid), `f` selects a failing close()
\* of the hook. The child copy continues in ChildHook and ChildExec. Were
\* the child branch taken in the parent, the parent would run the child's
\* hook on its own descriptors and call execvp (taken as failing: the calling
\* program stays).
dispatch(ret, errno, f) ==
    LET forked == libc_ret_to_result(ret, "Fork", errno)
        h == parent_after_dispatch_fn(pipes, strategy, f)
        hc == child_after_dispatch_before_exec_fn(
                  [ForkedChild EXCEPT !.pipes = pipes], strategy, f)
    IN /\ state' = Running
       /\ sys' = [sys EXCEPT !.fork = ret, !.errno = errno]
       /\ IF IsErr(forked)
          THEN /\ dres' = Some(forked)
               /\ UNCHANGED <<pid, procs, pipes, hooks>>
          ELSE /\ procs' = IF ret \in Pids THEN [procs EXCEPT ![ret] = ForkedChild]
                          ELSE procs
               /\ IF dispatch_branch(ret) = "parent"
                  THEN /\ pid' = Some(ret)
                       /\ hooks' = [hooks EXCEPT !.parent = @ + 1]
                       /\ pipes' = h.pipes
                       /\ dres' = Some(IF IsErr(h.res) THEN h.res ELSE Ok(ret))
                  ELSE /\ UNCHANGED pid
                       /\ hooks' = [hooks EXCEPT !.child_in_parent = @ + 1]
                       /\ pipes' = hc.proc.pipes
                       /\ dres' = Some(IF IsErr(hc.res) THEN hc.res
                                       ELSE dispatch_after_exec(exec_failed))

\* waitpid(p, &status, WNOHANG): the pid and the status of a terminated
\* child (which is reaped), 0 while the child runs, -1 (ECHILD) when there
\* is no such child to wait for. `inj` makes the call fail.
waitpid(p, inj) ==
    IF inj \/ p \notin Pids \/ procs[p].pc \in {"none", "reaped"}
    THEN [ret |-> -1, status |-> 0, procs |-> procs]
    ELSE IF procs[p].pc = "zombie"
    THEN [ret |-> p, status |-> procs[p].status,
          procs |-> [procs EXCEPT ![p].pc = "reaped"]]
    ELSE [ret |-> 0, status |-> 0, procs |-> procs]

\* The state check_state_nbl records for a wait status.
state_of_status(status) ==
    LET exited_normally == WIFEXITED(status)
        exited_by_signal == WIFSIGNALED(status)
        code == WEXITSTATUS(status)
    IN IF exited_normally \/ exited_by_signal
       THEN [set |-> TRUE, exit_code |-> Some(code),
             state |-> IF code = 0 THEN FinishedSuccess ELSE FinishedError(code)]
       ELSE [set |-> FALSE, exit_code |-> exit_code, state |-> state]

\* What check_state_nbl does when nothing is changed: the fields of the
\* handle and the process table as they are, the state returned.
check_state_nbl_same ==
    [state |-> state, exit_code |-> exit_code, procs |-> procs,
     ret |-> state, panic |-> FALSE, queried |-> FALSE]

\* check_state_nbl after waitpid has returned w: the new fields of the
\* handle, the process table after the poll, the value returned, and whether
\* the call panicked (unwrap() of a failed waitpid).
check_state_nbl_decode(w) ==
    LET same == check_state_nbl_same
        r == libc_ret_to_result(w.ret, "Waitpid", InjectedErrno("Waitpid"))
        s == state_of_status(w.status)
    IN IF IsErr(r) THEN [same EXCEPT !.panic = TRUE, !.queried = TRUE]
       ELSE IF w.ret = 0 THEN [same EXCEPT !.queried = TRUE]
       ELSE [state |-> s.state, exit_code |-> s.exit_code,
             procs |-> w.procs, ret |-> s.state, panic |-> FALSE,
             queried |-> TRUE]

\* check_state_nbl from the waitpid call on (pid.unwrap() panics on None).
check_state_nbl_query(inj) ==
    IF pid = None THEN [check_state_nbl_same EXCEPT !.panic = TRUE]
    ELSE check_state_nbl_decode(waitpid(pid[1], inj))

\* Faulty variant: the recorded state is not looked at, every call asks the OS.
check_state_nbl_uncached(inj) == check_state_nbl_query(inj)

\* ChildProcess::check_state_nbl: a state other than Running is returned as
\* recorded, without a system call.
check_state_nbl(inj) ==
    IF state # Running THEN check_state_nbl_same
    ELSE check_state_nbl_query(inj)

\* The system-call bookkeeping after one call of check_state_nbl.
SysAfterCheck(c) ==
    LET after_reap == c.queried /\ pid # None /\ pid[1] \in Pids
                      /\ procs[pid[1]].pc = "reaped"
    IN [sys EXCEPT !.waitpid_after_reap = IF after_reap THEN 1 ELSE @,
                   !.waitpid_failed = @ \/ (c.queried /\ c.panic)]

\* The handle and the process table after one call of check_state_nbl.
ApplyCheck(c) ==
    /\ state' = c.state
    /\ exit_code' = c.exit_code
    /\ procs' = c.procs
    /\ sys' = SysAfterCheck(c)

\* ------------------------------------------------------ the child process
\* The child copy of dispatch, where fork() returned 0, runs
\* child_after_dispatch_before_exec_fn. When the hook fails, dispatch returns
\* the error in the child, which goes on as a copy of the calling program
\* ("escaped") until it exits. Were the parent branch taken in the child, the
\* child would run the parent's hook and return from dispatch.
ChildHook(c, f) ==
    /\ procs[c].pc = "hook"
    /\ IF dispatch_branch(0) = "child"
       THEN LET h == child_after_dispatch_before_exec_fn(procs[c], strategy, f)
                ok == IsOk(h.res)
                ran == Append(procs[c].ran, <<"child_hook", ok>>)
            IN /\ procs' = [procs EXCEPT ![c] =
                     IF ok THEN [h.proc EXCEPT !.pc = "exec", !.ran = ran]
                     ELSE [h.proc EXCEPT !.pc = "escaped", !.dres = Some(h.res),
                                         !.ran = ran]]
               /\ hooks' = [hooks EXCEPT !.child = @ + 1]
       ELSE LET h == parent_after_dispatch_fn(procs[c].pipes, strategy, f)
            IN /\ procs' = [procs EXCEPT ![c] =
                     [@ EXCEPT !.pc = "escaped", !.pipes = h.pipes,
                               !.dres = Some(IF IsErr(h.res) THEN h.res ELSE Ok(0)),
                               !.ran = Append(@, <<"parent_hook", IsOk(h.res)>>)]]
               /\ UNCHANGED hooks
    /\ UNCHANGED <<strategy, gpc, result, state, pid, exit_code, dres, pipes,
                   buf, task, lastInstant, wrote, sys>>

\* exec() in the child: the program image is replaced, or execvp fails and
\* dispatch returns in the child.
ChildExec(c, ok) ==
    /\ procs[c].pc = "exec"
    /\ procs' = [procs EXCEPT ![c] =
                    IF ok THEN [@ EXCEPT !.pc = "run",
                                         !.ran = Append(@, <<"execvp", TRUE>>)]
                    ELSE [@ EXCEPT !.pc = "escaped",
                                   !.dres = Some(dispatch_after_exec(exec_failed)),
                                   !.ran = Append(@, <<"execvp", FALSE>>)]]
    /\ UNCHANGED <<strategy, gpc, result, state, pid, exit_code, dres, pipes,
                   buf, task, lastInstant, wrote, hooks, sys>>

\* The pipe a standard stream of child c is redirected onto (0: none).
StreamPipe(c, s) == IF s = "out" THEN procs[c].out ELSE procs[c].err

\* The child writes one byte to stdout or stderr; it blocks on a full pipe.
ChildWrite(c, s, b) ==
    /\ procs[c].pc = "run"
    /\ StreamPipe(c, s) # 0
    /\ Len(wrote) < MaxBytes
    /\ Len(buf[StreamPipe(c, s)]) < PipeCap
    /\ buf' = [buf EXCEPT ![StreamPipe(c, s)] = Append(@, b)]
    /\ wrote' = Append(wrote, <<s, b>>)
    /\ UNCHANGED <<strategy, gpc, result, state, pid, exit_code, dres, pipes,
                   procs, task, lastInstant, hooks, sys>>

\* The child closes every descriptor of the pipes it still holds (its
\* standard streams and the inherited write descriptors) and keeps running.
ChildCloseAll(c) ==
    /\ procs[c].pc = "run"
    /\ \E p \in PipeIds : ChildHoldsWriteEnd(c, p)
    /\ procs' = [procs EXCEPT ![c] =
                    [@ EXCEPT !.out = 0, !.err = 0,
                              !.pipes = [p \in PipeIds |->
                                  [@[p] EXCEPT !.read_fd = FALSE, !.write_fd = FALSE]]]]
    /\ UNCHANGED <<strategy, gpc, result, state, pid, exit_code, dres, pipes,
                   buf, task, lastInstant, wrote, hooks, sys>>

\* The process ends with wait status `status`; the kernel closes all its
\* descriptors.
Terminate(c, how, status) ==
    /\ procs' = [procs EXCEPT ![c] =
                    [NoProc EXCEPT !.pc = "zombie", !.how = Some(how),
                                   !.status = status, !.dres = procs[c].dres,
                                   !.ran = procs[c].ran]]
    /\ UNCHANGED <<strategy, gpc, result, state, pid, exit_code, dres, pipes,
                   buf, task, lastInstant, wrote, hooks, sys>>

\* Exit codes and signals the child program ends with in the capture
\* specifications; ExitSpec draws from every exit code and signal instead.
SampleExitCodes == {0, 3}
AllExitCodes == 0..255
Signals == {9}
AllSignals == 1..31

ChildExit(c, n) ==
    /\ procs[c].pc \in {"run", "escaped"}
    /\ Terminate(c, <<"exit", n>>, ExitStatus(n))

ChildKilled(c, sig) ==
    /\ Alive(c)
    /\ Terminate(c, <<"signal", sig>>, SignalStatus(sig))

\* ------------------------------------------------- pipe.rs: read_line
\* Pipe::read_char on pipe p: read(read_fd, buf, 1). The call blocks
\* (blocked = TRUE) while the pipe is empty and some process still holds its
\* write end; it returns 0 at end of stream. The byte is read into the first
\* byte of a zeroed char: on a little-endian target the char returned is the
\* one whose code point is the value of the byte.
read_char(p, inj) ==
    LET open == pipes[p].read_fd
        ret == IF inj \/ ~open THEN -1
               ELSE IF buf[p] # <<>> THEN 1
               ELSE 0
        errno == IF open THEN InjectedErrno("Read") ELSE CHOOSE e \in EBADF : TRUE
        r == libc_ret_to_result(ret, "Read", errno)
    IN [blocked |-> ~inj /\ open /\ buf[p] = <<>> /\ HasWriter(p),
        res |-> IF IsErr(r) THEN r
                ELSE IF ret = 0 THEN Ok(None)
                ELSE Ok(Some(Head(buf[p]))),
        consumed |-> IsOk(r) /\ ret # 0]

\* One iteration of the loop of Pipe::read_line on the result r of
\* read_char, with `chars` accumulated so far.
read_line_step(chars, r) ==
    IF IsErr(r) THEN [kind |-> "err", chars |-> <<>>, res |-> r]
    ELSE IF r[2] = None THEN [kind |-> "eof", chars |-> <<>>, res |-> Ok(None)]
    ELSE IF r[2][1] = NL THEN [kind |-> "newline", chars |-> chars, res |-> None]
    ELSE [kind |-> "more", chars |-> Append(chars, r[2][1]), res |-> None]

\* The UTF-8 encoding of a char with code point c < 2048, as String stores it.
char_encode_utf8(c) ==
    IF c < 128 THEN <<c>> ELSE <<192 + (c \div 64), 128 + (c % 64)>>

\* chars.into_iter().collect::<String>(): the String, as its bytes.
RECURSIVE String_from_chars(_)
String_from_chars(chars) ==
    IF chars = <<>> THEN <<>>
    ELSE char_encode_utf8(Head(chars)) \o String_from_chars(Tail(chars))

\* The check read_line makes on the pipe's end before it reads: a panic
\* (expect) when the end is not assigned, an error when it is the write end.
read_line_guard(p) ==
    IF pipes[p].end = None THEN "panic"
    ELSE IF pipes[p].end # Some("Read") THEN "err"
    ELSE "ok"

\* Reader task t is inside read_line and makes its next read() call.
ReadLine_Byte(t, inj) ==
    LET p == PipeOfTask(strategy, t)
        g == read_line_guard(p)
        rc == read_char(p, inj)
        st == read_line_step(task[t].chars, rc.res)
    IN /\ task[t].pc = "read"
       /\ IF g = "panic"
          THEN /\ task' = [task EXCEPT ![t].pc = "panic"]
               /\ UNCHANGED buf
          ELSE IF g = "err"
          THEN /\ task' = [task EXCEPT ![t].pc = "err",
                                       ![t].res = Some(Err(<<"PipeNotMarkedAsReadEnd">>))]
               /\ UNCHANGED buf
          ELSE /\ ~rc.blocked
               /\ buf' = IF rc.consumed THEN [buf EXCEPT ![p] = Tail(@)] ELSE buf
               /\ task' = [task EXCEPT ![t] =
                    CASE st.kind = "err" ->
                           [@ EXCEPT !.pc = "err", !.chars = <<>>, !.res = Some(st.res)]
                      [] st.kind = "eof" ->
                           [@ EXCEPT !.pc = "body", !.chars = <<>>, !.line = None]
                      [] st.kind = "newline" ->
                           [@ EXCEPT !.pc = "stamp", !.chars = st.chars]
                      [] OTHER ->
                           [@ EXCEPT !.chars = st.chars]]
       /\ UNCHANGED <<strategy, gpc, result, state, pid, exit_code, dres, pipes,
                      procs, lastInstant, wrote, hooks, sys>>

\* read_line has seen the newline and takes Instant::now(): any value the
\* monotonic clock may return, never smaller than an earlier one.
ReadLine_Stamp(t, instant) ==
    /\ task[t].pc = "stamp"
    /\ instant >= lastInstant
    /\ lastInstant' = instant
    /\ task' = [task EXCEPT ![t].pc = "body", ![t].chars = <<>>,
                            ![t].line = Some(<<instant, String_from_chars(task[t].chars)>>)]
    /\ UNCHANGED <<strategy, gpc, result, state, pid, exit_code, dres, pipes,
                   buf, procs, wrote, hooks, sys>>

\* ------------------------------------------------------------ reader.rs
\* Faulty variant: the loop ends as soon as one of the two conditions holds.
loop_break_either(process_finished, eof) == process_finished \/ eof

\* The exit condition of both reader loops.
loop_break(process_finished, eof) == process_finished /\ eof

\* Faulty variant: a line is put in front of the lines read before it.
push_front(lines, x) == <<x>> \o lines
\* Vec::push
push(lines, x) == Append(lines, x)

\* The rest of one loop iteration after read_line returned `line`: the line
\* is pushed (as `entry`), the process is polled, the loop ends or goes on.
\* A thread that panics inside check_state_nbl holds the lock of the shared
\* ChildProcess and poisons it: lock().unwrap() then panics in the other
\* thread.
LoopBody(t, inj, entry) ==
    LET line == task[t].line
        eof == line = None
        lines == IF eof THEN task[t].lines ELSE push(task[t].lines, entry)
        c == check_state_nbl(inj)
        process_is_running == c.ret = Running
        process_finished == ~process_is_running
    IN /\ task[t].pc = "body"
       /\ IF sys.poisoned
          THEN /\ task' = [task EXCEPT ![t].pc = "panic", ![t].line = None,
                                       ![t].lines = lines, ![t].eof = eof]
               /\ UNCHANGED <<state, exit_code, procs, sys>>
          ELSE IF c.panic
          THEN /\ task' = [task EXCEPT ![t].pc = "panic", ![t].line = None,
                                       ![t].lines = lines, ![t].eof = eof]
               /\ sys' = [SysAfterCheck(c) EXCEPT !.poisoned = (t # "combined")]
               /\ UNCHANGED <<state, exit_code, procs>>
          ELSE /\ task' = [task EXCEPT
                              ![t].pc = IF loop_break(process_finished, eof)
                                        THEN "done" ELSE "read",
                              ![t].line = None, ![t].lines = lines, ![t].eof = eof]
               /\ ApplyCheck(c)
       /\ UNCHANGED <<strategy, gpc, result, pid, dres, pipes, buf,
                      lastInstant, wrote, hooks>>

\* SimpleOutputReader::read_all_bl, one iteration: the line without its
\* timestamp is pushed.
Simple_LoopBody(inj) ==
    /\ strategy = StdCombined
    /\ LoopBody("combined", inj,
                IF task["combined"].line = None THEN <<>> ELSE task["combined"].line[1][2])

\* SimultaneousOutputReader::thread_fn, one iteration: (instant, line) is
\* pushed; the poll is made under the lock of the shared ChildProcess.
Thread_LoopBody(t, inj) ==
    /\ strategy = StdSeparately
    /\ t \in TasksOf(StdSeparately)
    /\ LoopBody(t, inj, IF task[t].line = None THEN <<>> ELSE task[t].line[1])

\* ProcessOutput::new
ProcessOutput(stdout_lines, stderr_lines, stdcombined_lines, code, strat) ==
    [exit_code |-> code, stdout_lines |-> stdout_lines,
     stderr_lines |-> stderr_lines, stdcombined_lines |-> stdcombined_lines,
     strategy |-> strat]

\* SimpleOutputReader::strategy()
SimpleOutputReader_strategy == StdCombined

\* Faulty variant: the reader of the separate strategy names the other strategy.
SimultaneousOutputReader_strategy_combined == StdCombined

\* SimultaneousOutputReader::strategy()
SimultaneousOutputReader_strategy == StdSeparately

\* SimpleOutputReader::read_all_bl after its loop, or when read_line failed.
Simple_Return ==
    /\ strategy = StdCombined
    /\ gpc = "reading"
    /\ task["combined"].pc \in {"done", "err", "panic"}
    /\ IF task["combined"].pc = "panic" \/ (task["combined"].pc = "done" /\ exit_code = None)
       THEN gpc' = "panic" /\ UNCHANGED result
       ELSE IF task["combined"].pc = "err"
       THEN gpc' = "error" /\ result' = task["combined"].res
       ELSE /\ gpc' = "returned"
            /\ result' = Some(Ok(ProcessOutput(None, None, task["combined"].lines,
                                               exit_code[1], SimpleOutputReader_strategy)))
    /\ UNCHANGED <<strategy, state, pid, exit_code, dres, pipes, buf, procs,
                   task, lastInstant, wrote, hooks, sys>>

\* Faulty variant: an insert with a key already present keeps the old value.
btree_insert_keeps_first(m, k, v) ==
    [x \in (DOMAIN m) \cup {k} |-> IF x \in DOMAIN m THEN m[x] ELSE v]

\* BTreeMap<Instant, line>: a function from the instants inserted; an insert
\* with a key already present replaces the value.
btree_insert(m, k, v) == [x \in (DOMAIN m) \cup {k} |-> IF x = k THEN v ELSE m[x]]

RECURSIVE btree_insert_all(_, _)
btree_insert_all(m, s) ==
    IF s = <<>> THEN m
    ELSE btree_insert_all(btree_insert(m, Head(s)[1], Head(s)[2]), Tail(s))

\* BTreeMap::values: the values in ascending order of their keys.
RECURSIVE btree_values(_)
btree_values(m) ==
    IF DOMAIN m = {} THEN <<>>
    ELSE LET k == CHOOSE x \in DOMAIN m : \A y \in DOMAIN m : x <= y
         IN <<m[k]>> \o btree_values([x \in (DOMAIN m) \ {k} |-> m[x]])

without_instant(lines) == [i \in 1..Len(lines) |-> lines[i][2]]

\* Faulty variant: the stderr lines are put after the stdout lines.
merge_by_stream(stdout, stderr) == without_instant(stdout) \o without_instant(stderr)

\* The combined lines of SimultaneousOutputReader::read_all_bl: every stdout
\* line, then every stderr line, is inserted into a map keyed by its instant.
merge_by_instant(stdout, stderr) ==
    btree_values(btree_insert_all(btree_insert_all(<<>>, stdout), stderr))

\* SimultaneousOutputReader::read_all_bl: the two threads are spawned when
\* the reader starts; stdout_t.join().unwrap()? comes first.
Join_Stdout ==
    /\ strategy = StdSeparately
    /\ gpc = "reading"
    /\ task["stdout"].pc \in {"done", "err", "panic"}
    /\ IF task["stdout"].pc = "panic" THEN gpc' = "panic" /\ UNCHANGED result
       ELSE IF task["stdout"].pc = "err"
       THEN gpc' = "error" /\ result' = task["stdout"].res
       ELSE gpc' = "join_stderr" /\ UNCHANGED result
    /\ UNCHANGED <<strategy, state, pid, exit_code, dres, pipes, buf, procs,
                   task, lastInstant, wrote, hooks, sys>>

\* stderr_t.join().unwrap()? and the assembly of the output.
Join_Stderr ==
    /\ strategy = StdSeparately
    /\ gpc = "join_stderr"
    /\ task["stderr"].pc \in {"done", "err", "panic"}
    /\ IF task["stderr"].pc = "panic" \/ (task["stderr"].pc = "done" /\ exit_code = None)
       THEN gpc' = "panic" /\ UNCHANGED result
       ELSE IF task["stderr"].pc = "err"
       THEN gpc' = "error" /\ result' = task["stderr"].res
       ELSE /\ gpc' = "returned"
            /\ result' = Some(Ok(ProcessOutput(
                   Some(without_instant(task["stdout"].lines)),
                   Some(without_instant(task["stderr"].lines)),
                   merge_by_instant(task["stdout"].lines, task["stderr"].lines),
                   exit_code[1], SimultaneousOutputReader_strategy)))
    /\ UNCHANGED <<strategy, state, pid, exit_code, dres, pipes, buf, procs,
                   task, lastInstant, wrote, hooks, sys>>

\* fork_exec_and_catch(executable, args, strategy): the child is dispatched;
\* on success the reader of the strategy starts, on failure the error is
\* returned.
Capture_Dispatch(ret, errno, f) ==
    /\ gpc = "start"
    /\ dispatch(ret, errno, f)
    /\ IF IsErr(dres'[1])
       THEN /\ gpc' = "error"
            /\ result' = dres'
            /\ UNCHANGED task
       ELSE /\ gpc' = "reading"
            /\ UNCHANGED result
            /\ task' = [t \in Tasks |->
                          IF t \in TasksOf(strategy)
                          THEN [IdleTask EXCEPT !.pc = "read"] ELSE IdleTask]
    /\ UNCHANGED <<strategy, exit_code, buf, lastInstant, wrote>>

\* ------------------------------------------- ChildProcess used directly
\* A caller of ChildProcess that calls dispatch and check_state_nbl in any
\* order, as often as it likes (at most MaxForks forks succeed).
Api_Dispatch(ret, errno, f) ==
    /\ gpc = "start"
    /\ ret = -1 \/ ret \in Pids
    /\ dispatch(ret, errno, f)
    /\ UNCHANGED <<strategy, gpc, result, exit_code, buf, task, lastInstant, wrote>>

Api_CheckStateNbl(inj) ==
    /\ gpc = "start"
    /\ LET c == check_state_nbl(inj)
       IN IF c.panic
          THEN /\ gpc' = "panic"
               /\ sys' = [SysAfterCheck(c) EXCEPT !.api_tick = ~@,
                                                  !.api_ret = None,
                                                  !.api_queried = c.queried]
               /\ UNCHANGED <<state, exit_code, procs>>
          ELSE /\ state' = c.state
               /\ exit_code' = c.exit_code
               /\ procs' = c.procs
               /\ sys' = [SysAfterCheck(c) EXCEPT !.api_tick = ~@,
                                                  !.api_ret = Some(c.ret),
                                                  !.api_queried = c.queried]
               /\ UNCHANGED gpc
    /\ UNCHANGED <<strategy, result, pid, dres, pipes, buf, task, lastInstant,
                   wrote, hooks>>

\* ---------------------------------------------------- Pipe used directly
\* A caller that holds the pipes itself and calls read_line one call at a
\* time. task[t].lines keeps what each call returned: None, Some((instant,
\* line)) or an error. At most MaxCalls calls are made per pipe.
Pipe_ReadLine(t) ==
    /\ gpc = "start"
    /\ t \in TasksOf(strategy)
    /\ task[t].pc = "idle"
    /\ Len(task[t].lines) < MaxCalls
    /\ task' = [task EXCEPT ![t].pc = "read"]
    /\ UNCHANGED <<strategy, gpc, result, state, pid, exit_code, dres, pipes,
                   buf, procs, lastInstant, wrote, hooks, sys>>

\* read_line hands its value back to the caller.
Pipe_ReadLineReturn(t) ==
    /\ gpc = "start"
    /\ task[t].pc \in {"body", "err"}
    /\ task' = [task EXCEPT
                    ![t].pc = "idle", ![t].line = None, ![t].res = None,
                    ![t].lines = Append(@, IF task[t].pc = "err" THEN task[t].res[1]
                                           ELSE Ok(task[t].line))]
    /\ UNCHANGED <<strategy, gpc, result, state, pid, exit_code, dres, pipes,
                   buf, procs, lastInstant, wrote, hooks, sys>>

\* The caller marks pipe p as the write end, between two read_line calls.
Pipe_MarkAsChild(p) ==
    /\ gpc = "start"
    /\ p \in PipesOf(strategy)
    /\ \A t \in Tasks : task[t].pc = "idle"
    /\ pipes[p].end # Some("Write")
    /\ pipes' = mark_as_child_process(pipes, p, FALSE).pipes
    /\ UNCHANGED <<strategy, gpc, result, state, pid, exit_code, dres, buf,
                   procs, task, lastInstant, wrote, hooks, sys>>

\* The caller dispatches the one child, between two read_line calls.
Pipe_Dispatch ==
    /\ pid = None
    /\ \A t \in Tasks : task[t].pc = "idle"
    /\ Api_Dispatch(NextPid, 0, 0)

\* -------------------------------------------------------- specifications
ChildSetup ==
    \/ \E c \in Pids, f \in 0..4 : ChildHook(c, f)
    \/ \E c \in Pids, ok \in BOOLEAN : ChildExec(c, ok)

ChildOutput ==
    \/ \E c \in Pids, s \in Streams, b \in Bytes : ChildWrite(c, s, b)
    \/ \E c \in Pids : ChildCloseAll(c)

ChildEnd ==
    \/ \E c \in Pids, n \in SampleExitCodes : ChildExit(c, n)
    \/ \E c \in Pids, sig \in Signals : ChildKilled(c, sig)

ChildEndAny ==
    \/ \E c \in Pids, n \in AllExitCodes : ChildExit(c, n)
    \/ \E c \in Pids, sig \in AllSignals : ChildKilled(c, sig)

TaskStep(t) ==
    \/ ReadLine_Byte(t, FALSE)
    \/ \E i \in 0..MaxTime : ReadLine_Stamp(t, i)
    \/ t = "combined" /\ Simple_LoopBody(FALSE)
    \/ Thread_LoopBody(t, FALSE)

Return ==
    \/ Simple_Return
    \/ Join_Stdout
    \/ Join_Stderr

Reader ==
    \/ \E t \in Tasks : TaskStep(t)
    \/ Return

Launch ==
    \/ Capture_Dispatch(NextPid, 0, 0)
    \/ \E f \in 1..2 : Capture_Dispatch(NextPid, 0, f)
    \/ \E e \in ForkErrnos : Capture_Dispatch(-1, e, 0)

Next == Launch \/ ChildSetup \/ ChildOutput \/ ChildEnd \/ Reader

\* One capture: fork_exec_and_catch with either strategy and a child program
\* that writes up to MaxBytes bytes; fork(), close(), dup2() and execvp()
\* may fail.
Spec == Init /\ [][Next]_vars

NextExit ==
    \/ Launch
    \/ ChildSetup
    \/ ChildEndAny
    \/ \E t \in Tasks : ReadLine_Byte(t, FALSE)
    \/ Simple_LoopBody(FALSE)
    \/ \E t \in Tasks : Thread_LoopBody(t, FALSE)
    \/ Return

\* One capture of a child program that writes nothing and ends with any exit
\* code or any signal.
ExitSpec == Init /\ [][NextExit]_vars

NextLive ==
    \/ Capture_Dispatch(NextPid, 0, 0)
    \/ \E c \in Pids : ChildHook(c, 0)
    \/ \E c \in Pids : ChildExec(c, TRUE)
    \/ ChildOutput /\ Len(wrote') <= MaxLiveBytes
    \/ ChildEnd
    \/ Reader /\ lastInstant' = lastInstant

\* One capture in which no system call fails. The reader tasks are threads
\* of the parent and the parent's main thread runs whenever it can: each is
\* scheduled fairly. Nothing is assumed of the child, which writes up to
\* MaxLiveBytes bytes. No loop condition reads the clock, so the clock stands
\* still here.
LiveSpec ==
    /\ Init
    /\ [][NextLive]_vars
    /\ \A t \in Tasks : WF_vars(TaskStep(t))
    /\ WF_vars(Return)
    /\ WF_vars(Capture_Dispatch(NextPid, 0, 0))

NextApi ==
    \/ \E f \in 0..2 : Api_Dispatch(NextPid, 0, f)
    \/ \E e \in ForkErrnos : Api_Dispatch(-1, e, 0)
    \/ \E inj \in BOOLEAN : Api_CheckStateNbl(inj)
    \/ ChildSetup
    \/ ChildEnd

\* ChildProcess driven by any sequence of dispatch and check_state_nbl calls.
ApiSpec == Init /\ [][NextApi]_vars

NextFault ==
    \/ Capture_Dispatch(NextPid, 0, 0)
    \/ \E c \in Pids : ChildHook(c, 0)
    \/ \E c \in Pids : ChildExec(c, TRUE)
    \/ ChildOutput
    \/ \E c \in Pids : ChildExit(c, 0)
    \/ \E t \in Tasks, inj \in BOOLEAN : ReadLine_Byte(t, inj)
    \/ \E t \in Tasks : ReadLine_Stamp(t, lastInstant)
    \/ \E inj \in BOOLEAN : Simple_LoopBody(inj)
    \/ \E t \in Tasks, inj \in BOOLEAN : Thread_LoopBody(t, inj)
    \/ Return

\* One capture in which read() and waitpid() may fail at any call. The clock
\* stands still: no error path reads it.
FaultSpec == Init /\ [][NextFault]_vars

\* A child program that writes ProgramLen bytes, all of them to stdout or
\* all of them to stderr (the stream of its first write), and then exits
\* with code 0.
ProgramLen == PipeCap + 1

Program_Write(c) ==
    /\ Len(wrote) < ProgramLen
    /\ \E s \in Streams, b \in Bytes :
          /\ wrote # <<>> => s = wrote[1][1]
          /\ ChildWrite(c, s, b)

Program_Exit(c) ==
    /\ Len(wrote) = ProgramLen
    /\ ChildExit(c, 0)

\* A step of thread t in which no system call fails.
DrainTaskStep(t) ==
    \/ ReadLine_Byte(t, FALSE)
    \/ ReadLine_Stamp(t, lastInstant)
    \/ Thread_LoopBody(t, FALSE)

NextDrain ==
    \/ Capture_Dispatch(NextPid, 0, 0)
    \/ \E c \in Pids : ChildHook(c, 0)
    \/ \E c \in Pids : ChildExec(c, TRUE)
    \/ \E c \in Pids : Program_Write(c)
    \/ \E c \in Pids : Program_Exit(c)
    \/ \E t \in Tasks : DrainTaskStep(t)
    \/ \E t \in Tasks : ReadLine_Byte(t, TRUE)
    \/ Join_Stdout
    \/ Join_Stderr

\* One capture with the separate strategy of a child that runs the program
\* above; read() may fail at any call (a failure may happen, it need not).
\* The two threads, the caller's thread and the child are all scheduled
\* fairly: a thread takes its next step whenever its read() is not blocked,
\* the child whenever it is not blocked on a full pipe.
DrainSpec ==
    /\ InitFor(StdSeparately)
    /\ [][NextDrain]_vars
    /\ WF_vars(Capture_Dispatch(NextPid, 0, 0))
    /\ \A c \in Pids : WF_vars(ChildHook(c, 0))
    /\ \A c \in Pids : WF_vars(ChildExec(c, TRUE))
    /\ \A c \in Pids : WF_vars(Program_Write(c))
    /\ \A c \in Pids : WF_vars(Program_Exit(c))
    /\ \A t \in Tasks : WF_vars(DrainTaskStep(t))
    /\ WF_vars(Join_Stdout)
    /\ WF_vars(Join_Stderr)

\* ------------------------------- the poll of the two threads, step by step
\* Faulty variant: the ChildProcess is shared without mutual exclusion.
child_lock_ignored(holder) == TRUE

\* child.lock(): the Mutex of the shared ChildProcess can be taken when no
\* thread holds it.
child_lock_available(holder) == holder = None

\* Faulty variant: the guard of the lock outlives the statement of the poll.
child_unlock_kept(holder, t) == holder

\* The guard returned by child.lock() is a temporary of the statement that
\* polls: it is dropped, and the lock released, when the statement ends.
child_unlock(holder, t) == IF holder = Some(t) THEN None ELSE holder

\* Thread t has its line and calls child.lock().unwrap().check_state_nbl():
\* it takes the lock and either returns the recorded state at once or calls
\* waitpid, whose result it holds (in res) until Thread_Unlock.
Thread_Lock(t) ==
    LET line == task[t].line
        eof == line = None
        lines == IF eof THEN task[t].lines ELSE push(task[t].lines, line[1])
        w == waitpid(pid[1], FALSE)
    IN /\ strategy = StdSeparately
       /\ t \in TasksOf(StdSeparately)
       /\ task[t].pc = "body"
       /\ child_lock_available(sys.lock)
       /\ IF sys.poisoned
          THEN /\ task' = [task EXCEPT ![t].pc = "panic", ![t].line = None,
                                       ![t].lines = lines, ![t].eof = eof]
               /\ UNCHANGED <<procs, sys>>
          ELSE IF state # Running
          THEN /\ task' = [task EXCEPT
                              ![t].pc = IF loop_break(TRUE, eof) THEN "done" ELSE "read",
                              ![t].res = IF loop_break(TRUE, eof)
                                         THEN Some(check_state_nbl_same.ret) ELSE None,
                              ![t].line = None, ![t].lines = lines, ![t].eof = eof]
               /\ UNCHANGED <<procs, sys>>
          ELSE /\ task' = [task EXCEPT ![t].pc = "polled", ![t].line = None,
                                       ![t].lines = lines, ![t].eof = eof,
                                       ![t].res = Some(<<"waitpid", w.ret, w.status>>)]
               /\ procs' = w.procs
               /\ sys' = [sys EXCEPT
                             !.lock = Some(t),
                             !.waitpid_after_reap =
                                 IF procs[pid[1]].pc = "reaped" THEN 1 ELSE @]
       /\ UNCHANGED <<strategy, gpc, result, state, pid, exit_code, dres, pipes,
                      buf, lastInstant, wrote, hooks>>

\* Thread t is back from waitpid: check_state_nbl decodes the status, updates
\* the handle and returns; the lock is released; the loop ends or goes on.
Thread_Unlock(t) ==
    LET w == [ret |-> task[t].res[1][2], status |-> task[t].res[1][3],
              procs |-> procs]
        c == check_state_nbl_decode(w)
        fin == loop_break(c.ret # Running, task[t].eof)
        unlocked == child_unlock(sys.lock, t)
    IN /\ task[t].pc = "polled"
       /\ IF c.panic
          THEN /\ task' = [task EXCEPT ![t].pc = "panic", ![t].res = None]
               /\ sys' = [sys EXCEPT !.lock = unlocked, !.poisoned = TRUE,
                                     !.waitpid_failed = TRUE]
               /\ UNCHANGED <<state, exit_code>>
          ELSE /\ task' = [task EXCEPT ![t].pc = IF fin THEN "done" ELSE "read",
                                       ![t].res = IF fin THEN Some(c.ret) ELSE None]
               /\ state' = c.state
               /\ exit_code' = c.exit_code
               /\ sys' = [sys EXCEPT !.lock = unlocked]
       /\ UNCHANGED <<strategy, gpc, result, pid, dres, pipes, buf, procs,
                      lastInstant, wrote, hooks>>

NextLock ==
    \/ Capture_Dispatch(NextPid, 0, 0)
    \/ \E c \in Pids : ChildHook(c, 0)
    \/ \E c \in Pids : ChildExec(c, TRUE)
    \/ ChildOutput /\ Len(wrote') <= MaxLiveBytes
    \/ ChildEnd
    \/ \E t \in Tasks : ReadLine_Byte(t, FALSE)
    \/ \E t \in Tasks : ReadLine_Stamp(t, lastInstant)
    \/ \E t \in Tasks : Thread_Lock(t)
    \/ \E t \in Tasks : Thread_Unlock(t)
    \/ Join_Stdout
    \/ Join_Stderr

\* One capture with the separate strategy in which each thread's poll of the
\* shared ChildProcess takes two steps, the waitpid call and the update of
\* the handle, so that the threads can interleave wherever the lock lets
\* them. No system call fails; the clock stands still.
LockSpec == InitFor(StdSeparately) /\ [][NextLock]_vars

\* The same capture with the threads scheduled fairly: a thread that is back
\* from waitpid goes on to update the handle and to release the lock.
FairLockSpec == LockSpec /\ \A t \in Tasks : WF_vars(Thread_Unlock(t))

\* ------------------------------------------- the same program captured twice
\* The first capture has returned; the caller starts a second capture with
\* the same strategy: new pipes, a new ChildProcess, a new reader. What the
\* first child wrote, its exit code and what the capture returned are kept.
Capture_Again ==
    /\ gpc = "returned"
    /\ sys.first = None
    /\ sys' = [NoSys EXCEPT !.first = Some([wrote |-> wrote,
                                            code |-> TheChildHow[2],
                                            result |-> result])]
    /\ gpc' = "start"
    /\ result' = None
    /\ state' = Ready
    /\ pid' = None
    /\ exit_code' = None
    /\ dres' = None
    /\ pipes' = [p \in PipeIds |-> IF p \in PipesOf(strategy) THEN NewPipe ELSE NoPipe]
    /\ buf' = [p \in PipeIds |-> <<>>]
    /\ procs' = [c \in Pids |-> NoProc]
    /\ task' = [t \in Tasks |-> IdleTask]
    /\ lastInstant' = 0
    /\ wrote' = <<>>
    /\ hooks' = [parent |-> 0, child |-> 0, child_in_parent |-> 0]
    /\ UNCHANGED strategy

\* The child of the first capture writes what it likes and exits; the child
\* of the second capture is the same deterministic program: it makes the
\* same writes in the same order and exits with the same code.
Twice_Write(c) ==
    \E s \in Streams, b \in Bytes :
        /\ sys.first # None =>
              /\ Len(wrote) < Len(sys.first[1].wrote)
              /\ <<s, b>> = sys.first[1].wrote[Len(wrote) + 1]
        /\ ChildWrite(c, s, b)

Twice_Exit(c) ==
    \E n \in SampleExitCodes :
        /\ sys.first # None =>
              /\ Len(wrote) = Len(sys.first[1].wrote)
              /\ n = sys.first[1].code
        /\ ChildExit(c, n)

\* No line of the separate strategy has been given the instant i yet.
FreshInstant(i) ==
    \A t \in TasksOf(StdSeparately) :
        /\ \A k \in 1..Len(task[t].lines) : task[t].lines[k][1] # i
        /\ task[t].line # None => task[t].line[1][1] # i

\* Instant::now() in the two captures: here no two lines of a capture get the
\* same instant, so that what differs between the captures does not come
\* from lines replacing each other in the merge. The combined strategy does
\* not use the instants.
Twice_Stamp(t) ==
    \E i \in 0..MaxTime :
        /\ IF strategy = StdSeparately THEN FreshInstant(i) ELSE i = lastInstant
        /\ ReadLine_Stamp(t, i)

NextTwice ==
    \/ Capture_Dispatch(NextPid, 0, 0)
    \/ \E c \in Pids : ChildHook(c, 0)
    \/ \E c \in Pids : ChildExec(c, TRUE)
    \/ \E c \in Pids : Twice_Write(c)
    \/ \E c \in Pids : Twice_Exit(c)
    \/ \E t \in Tasks : ReadLine_Byte(t, FALSE)
    \/ \E t \in Tasks : Twice_Stamp(t)
    \/ Simple_LoopBody(FALSE)
    \/ \E t \in Tasks : Thread_LoopBody(t, FALSE)
    \/ Return
    \/ Capture_Again

\* Two captures, one after the other, of the same deterministic program with
\* the same strategy, under every scheduling of the child and of the reader
\* tasks; no system call fails.
TwiceSpec == Init /\ [][NextTwice]_vars

\* ------------------------------- exec.rs: the reader with one blocking loop
\* child_process_done(pid): waitpid(pid, &status_code, WNOHANG) whose return
\* value is not looked at; status_code starts as 0 and is written only when
\* waitpid returns the pid of a terminated child. `inj` makes waitpid fail.
child_process_done(p, inj) ==
    LET w == waitpid(p, inj)
        status_code == IF w.ret = p THEN w.status ELSE 0
        exited_normally == WIFEXITED(status_code)
        exited_by_signal == WIFSIGNALED(status_code)
        code == WEXITSTATUS(status_code)
    IN [finished |-> exited_normally \/ exited_by_signal,
        code |-> IF exited_normally \/ exited_by_signal THEN code ELSE 0,
        procs |-> w.procs]

\* The output parent_catch_output builds.
Catch_ProcessOutput(stdout_lines, stderr_lines, stdcombined_lines, code) ==
    [exit_code |-> code, stdout_lines |-> stdout_lines,
     stderr_lines |-> stderr_lines, stdcombined_lines |-> stdcombined_lines]

\* fork_exec_and_catch(executable, args) of exec.rs up to the call of
\* parent_catch_output: two pipes, fork(), child_setup_pipes and exec() in
\* the child, parent_setup_pipes in the parent. These are the steps of
\* dispatch with the hooks of the separate strategy; the fields of the
\* handle that dispatch sets are not read by this reader, which keeps the
\* pid only. On success the first read_line, on stdout, is entered.
Catch_Dispatch(ret, errno, f) ==
    /\ strategy = StdSeparately
    /\ gpc = "start"
    /\ dispatch(ret, errno, f)
    /\ IF IsErr(dres'[1])
       THEN /\ gpc' = "error"
            /\ result' = dres'
            /\ UNCHANGED task
       ELSE /\ gpc' = "catching"
            /\ UNCHANGED result
            /\ task' = [task EXCEPT !["stdout"].pc = "read"]
    /\ UNCHANGED <<strategy, exit_code, buf, lastInstant, wrote>>

\* stdout_pipe.read_line()? has returned a value: stderr_pipe.read_line() is
\* entered.
Catch_ReadStderr ==
    /\ gpc = "catching"
    /\ task["stdout"].pc = "body"
    /\ task["stderr"].pc = "idle"
    /\ task' = [task EXCEPT !["stderr"].pc = "read"]
    /\ UNCHANGED <<strategy, gpc, result, state, pid, exit_code, dres, pipes,
                   buf, procs, lastInstant, wrote, hooks, sys>>

\* One of the two read_line calls failed: `?` returns the error.
Catch_ReadFailed ==
    /\ gpc = "catching"
    /\ \E t \in {"stdout", "stderr"} :
          /\ task[t].pc = "err"
          /\ result' = task[t].res
    /\ gpc' = "error"
    /\ UNCHANGED <<strategy, state, pid, exit_code, dres, pipes, buf, procs,
                   task, lastInstant, wrote, hooks, sys>>

\* The rest of one iteration of parent_catch_output, both read_line calls
\* having returned: the stdout line and then the stderr line are pushed to
\* their own vector and to stdcombined_lines (kept in task["combined"]);
\* child_process_done is called; the loop ends with the output or starts
\* over with read_line on stdout.
Catch_LoopBody(inj) ==
    LET stdout_line == task["stdout"].line
        stderr_line == task["stderr"].line
        stdout_eof == stdout_line = None
        stderr_eof == stderr_line = None
        stdout_lines == IF stdout_eof THEN task["stdout"].lines
                        ELSE push(task["stdout"].lines, stdout_line[1])
        stderr_lines == IF stderr_eof THEN task["stderr"].lines
                        ELSE push(task["stderr"].lines, stderr_line[1])
        combined1 == IF stdout_eof THEN task["combined"].lines
                     ELSE push(task["combined"].lines, stdout_line[1])
        stdcombined_lines == IF stderr_eof THEN combined1
                             ELSE push(combined1, stderr_line[1])
        d == child_process_done(pid[1], inj)
        break == d.finished /\ stdout_eof /\ stderr_eof
    IN /\ gpc = "catching"
       /\ task["stdout"].pc = "body"
       /\ task["stderr"].pc = "body"
       /\ procs' = d.procs
       /\ task' = [task EXCEPT
                       !["stdout"] = [@ EXCEPT !.pc = IF break THEN "done" ELSE "read",
                                               !.line = None, !.lines = stdout_lines,
                                               !.eof = stdout_eof],
                       !["stderr"] = [@ EXCEPT !.pc = IF break THEN "done" ELSE "idle",
                                               !.line = None, !.lines = stderr_lines,
                                               !.eof = stderr_eof],
                       !["combined"].lines = stdcombined_lines]
       /\ IF break
          THEN /\ gpc' = "returned"
               /\ result' = Some(Ok(Catch_ProcessOutput(
                                stdout_lines, stderr_lines, stdcombined_lines, d.code)))
          ELSE UNCHANGED <<gpc, result>>
       /\ UNCHANGED <<strategy, state, pid, exit_code, dres, pipes, buf,
                      lastInstant, wrote, hooks, sys>>

\* The steps of the reader of exec.rs.
Catch_Reader ==
    \/ \E t \in {"stdout", "stderr"}, inj \in BOOLEAN : ReadLine_Byte(t, inj)
    \/ \E t \in {"stdout", "stderr"} : ReadLine_Stamp(t, lastInstant)
    \/ Catch_ReadStderr
    \/ Catch_ReadFailed
    \/ \E inj \in BOOLEAN : Catch_LoopBody(inj)

NextCatch ==
    \/ Catch_Dispatch(NextPid, 0, 0)
    \/ \E c \in Pids : ChildHook(c, 0)
    \/ \E c \in Pids : ChildExec(c, TRUE)
    \/ ChildOutput
    \/ ChildEnd
    \/ Catch_Reader

\* fork_exec_and_catch(executable, args) of exec.rs with any child program
\* that writes up to MaxBytes bytes; read() and waitpid() may fail. The
\* reader does not use the clock, which stands still.
CatchSpec == InitFor(StdSeparately) /\ [][NextCatch]_vars

NextCatchProgram ==
    \/ Catch_Dispatch(NextPid, 0, 0)
    \/ \E c \in Pids : ChildHook(c, 0)
    \/ \E c \in Pids : ChildExec(c, TRUE)
    \/ \E c \in Pids : Program_Write(c)
    \/ \E c \in Pids : Program_Exit(c)
    \/ Catch_Reader

\* fork_exec_and_catch(executable, args) of exec.rs with the child program
\* that writes ProgramLen bytes to one stream and exits.
CatchProgramSpec == InitFor(StdSeparately) /\ [][NextCatchProgram]_vars

\* --------------------------------------- a child that pauses between lines
\* Every line written so far has been read and stamped by its reader task.
AllLinesStamped ==
    /\ \A p \in PipeIds : buf[p] = <<>>
    /\ \A t \in Tasks : task[t].pc # "stamp" /\ task[t].chars = <<>>

\* The child writes whole lines, each to one stream, and sleeps after each
\* line for longer than the readers need: it starts a line only when every
\* line before it has been stamped.
Paced_Write(c) ==
    \E s \in Streams, b \in Bytes :
        /\ IF wrote = <<>> \/ wrote[Len(wrote)][2] = NL
           THEN AllLinesStamped
           ELSE s = wrote[Len(wrote)][1]
        /\ ChildWrite(c, s, b)

\* Instant::now() when the lines are further apart than the resolution of
\* the clock: every reading is later than the one before.
Paced_Stamp(t) == ReadLine_Stamp(t, lastInstant + 1)

NextPaced ==
    \/ Capture_Dispatch(NextPid, 0, 0)
    \/ \E c \in Pids : ChildHook(c, 0)
    \/ \E c \in Pids : ChildExec(c, TRUE)
    \/ \E c \in Pids : Paced_Write(c)
    \/ ChildEnd
    \/ \E t \in Tasks : ReadLine_Byte(t, FALSE)
    \/ \E t \in Tasks : Paced_Stamp(t)
    \/ Simple_LoopBody(FALSE)
    \/ \E t \in Tasks : Thread_LoopBody(t, FALSE)
    \/ Return

\* One capture, with either strategy, of a child that writes its lines one
\* after the other with a pause after each, as the example program does; no
\* system call fails.
PacedSpec == Init /\ [][NextPaced]_vars

\* The tasks that read the stdout pipe of either strategy.
PipeReaders == {"combined", "stdout"}

NextPipe ==
    \/ Pipe_Dispatch
    \/ \E c \in Pids : ChildHook(c, 0)
    \/ \E c \in Pids : ChildExec(c, TRUE)
    \/ ChildOutput
    \/ \E c \in Pids : ChildExit(c, 0)
    \/ Pipe_MarkAsChild(stdout_pipe(strategy))
    \/ \E t \in PipeReaders : Pipe_ReadLine(t)
    \/ \E t \in PipeReaders : ReadLine_Byte(t, FALSE)
    \/ \E t \in PipeReaders : ReadLine_Stamp(t, lastInstant)
    \/ \E t \in PipeReaders : Pipe_ReadLineReturn(t)

\* Pipe::read_line called directly, one call after the other, on the stdout
\* pipe while it is not yet marked, marked as read end by a dispatch, or
\* marked as write end; a dispatched child writes to its stdout and stderr.
\* What read_line returns does not depend on the clock, which stands still
\* here.
PipeSpec == Init /\ [][NextPipe]_vars

\* Bytes of a text that is not only ASCII: the newline, 'a', and a byte with
\* the high bit set.
LineBytes == {NL, 97, 233}

\* The child writes one byte of such a text to its stdout.
Line_Write(c) == \E b \in LineBytes : ChildWrite(c, "out", b)

NextLine ==
    \/ Pipe_Dispatch
    \/ \E c \in Pids : ChildHook(c, 0)
    \/ \E c \in Pids : ChildExec(c, TRUE)
    \/ \E c \in Pids : Line_Write(c)
    \/ \E c \in Pids : ChildExit(c, 0)
    \/ Pipe_ReadLine("combined")
    \/ ReadLine_Byte("combined", FALSE)
    \/ ReadLine_Stamp("combined", lastInstant)
    \/ Pipe_ReadLineReturn("combined")

\* Pipe::read_line called directly, one call after the other, on the one pipe
\* of the combined strategy, before and after a dispatch made it the read
\* end, while the child writes any bytes to it and exits.
LineSpec == InitFor(StdCombined) /\ [][NextLine]_vars

\* ------------------------------------------------------------ the claims
\* What the caller got back, when the capture returned an output.
Returned == gpc = "returned"
Output == result[1][2]

\* The child of this capture and how it ended.
TheChild == procs[pid[1]]
ChildTerminated == pid # None /\ pid[1] \in Pids /\ TheChild.pc \in {"zombie", "reaped"}
IsFinished(st) == st[1] \in {"FinishedSuccess", "FinishedError"}

\* The bytes the child wrote to one stream, and to both, in write order.
RECURSIVE StreamBytesOf(_, _)
StreamBytesOf(w, s) ==
    IF w = <<>> THEN <<>>
    ELSE (IF Head(w)[1] = s THEN <<Head(w)[2]>> ELSE <<>>) \o StreamBytesOf(Tail(w), s)
StreamBytes(s) == StreamBytesOf(wrote, s)
AllBytes == [i \in 1..Len(wrote) |-> wrote[i][2]]

\* A text of newline-terminated lines, and its lines.
WellFormed(bs) == bs = <<>> \/ bs[Len(bs)] = NL
NewlinesIn(bs) == {i \in 1..Len(bs) : bs[i] = NL}
RECURSIVE TextLinesFrom(_, _)
TextLinesFrom(bs, from) ==
    IF \A i \in NewlinesIn(bs) : i < from THEN <<>>
    ELSE LET nl == CHOOSE i \in NewlinesIn(bs) :
                      i >= from /\ \A j \in NewlinesIn(bs) : j >= from => i <= j
         IN <<SubSeq(bs, from, nl - 1)>> \o TextLinesFrom(bs, nl + 1)
TextLines(bs) == TextLinesFrom(bs, 1)

C3_CombinedHasEveryLine ==
    (Returned /\ strategy = StdSeparately)
    => Len(Output.stdcombined_lines)
         = Len(Output.stdout_lines[1]) + Len(Output.stderr_lines[1])

\* C4: when the child exits normally with code N, the output's exit code is
\* N and the handle is FinishedSuccess for N = 0, FinishedError(N) otherwise.
C4_ExitCodePropagated ==
    \A n \in AllExitCodes :
        (Returned /\ TheChild.how = Some(<<"exit", n>>))
        => /\ Output.exit_code = n
           /\ exit_code = Some(n)
           /\ state = IF n = 0 THEN FinishedSuccess ELSE FinishedError(n)

\* A capture that returned the largest exit code.
C4_Witness ==
    /\ Returned
    /\ TheChild.how = Some(<<"exit", 255>>)
    /\ state = FinishedError(255)

\* C5 as claimed: when the child was terminated by a signal, the handle ends
\* in FinishedError(code) with code # 0, never in FinishedSuccess, and the
\* exit code of the output is not 0.
C5_SignalIsNotSuccess ==
    (ChildTerminated /\ TheChild.pc = "reaped" /\ TheChild.how[1][1] = "signal")
    => /\ state # FinishedSuccess
       /\ state[1] = "FinishedError" /\ state[2] # 0
       /\ exit_code # Some(0)
       /\ Returned => Output.exit_code # 0

\* C6: a reader loop has ended only if its last read_line returned end of
\* stream and the handle is terminal; then the pipe really is at end of
\* stream and the child really has terminated, and the capture has not
\* returned while the child runs.
C6_TwoSignalTermination ==
    /\ \A t \in Tasks :
          task[t].pc = "done"
          => /\ task[t].eof
             /\ IsFinished(state)
             /\ buf[PipeOfTask(strategy, t)] = <<>>
             /\ ~HasWriter(PipeOfTask(strategy, t))
             /\ ChildTerminated
    /\ Returned => ChildTerminated /\ TheChild.pc = "reaped"

\* The stdout loop has ended, and the stderr loop goes on although the handle
\* is terminal, because its pipe still holds a byte.
C6_Witness ==
    /\ task["stdout"].pc = "done"
    /\ task["stderr"].pc = "read"
    /\ IsFinished(state)
    /\ buf[stderr_pipe(strategy)] # <<>>

\* C7: when no system call fails and the reader tasks are scheduled fairly,
\* once the child has terminated every reader loop eventually ends and the
\* capture eventually returns an output; when
\* the child wrote nothing and exited with code 0, every line sequence of
\* that output is empty and its exit code is 0.
C7_CaptureReturns ==
    /\ ChildTerminated ~> (\A t \in TasksOf(strategy) : task[t].pc = "done")
    /\ ChildTerminated ~> Returned
    /\ [](Returned /\ wrote = <<>> /\ TheChild.how = Some(<<"exit", 0>>)
           => /\ Output.stdcombined_lines = <<>>
              /\ Output.exit_code = 0
              /\ strategy = StdSeparately
                 => Output.stdout_lines = Some(<<>>) /\ Output.stderr_lines = Some(<<>>))

\* The separate strategy returned for a child that wrote nothing and exited
\* with code 0.
C7_Witness ==
    /\ Returned /\ strategy = StdSeparately
    /\ wrote = <<>> /\ TheChild.how = Some(<<"exit", 0>>)
    /\ Output.exit_code = 0

\* C8 as claimed: over any sequence of dispatch and check_state_nbl calls the
\* state only moves Ready -> Running -> FinishedSuccess | FinishedError; a
\* state that was left is not entered again and a terminal state is not left.
C8_LifecycleMonotonic ==
    [][\/ state' = state
       \/ state = Ready /\ state' = Running
       \/ state = Running /\ IsFinished(state')]_vars

\* C9 as claimed: the handle is Running only after a fork that succeeded,
\* with the child's pid recorded, and is still Ready after a failed fork.
C9_RunningOnlyAfterFork ==
    /\ state = Running => sys.fork > 0 /\ pid # None
    /\ sys.fork = -1 => state = Ready

\* C10: when fork() fails, dispatch returns ForkFailed with the errno, and
\* neither the hook of the child nor the hook of the parent is invoked.
C10_ForkFailure ==
    sys.fork = -1
    => /\ dres = Some(Err(<<"ForkFailed", sys.errno>>))
       /\ hooks.parent = 0 /\ hooks.child = 0
       /\ pid = None
       /\ \A c \in Pids : procs[c].pc = "none"

\* fork() has failed and the capture returned the error.
C10_Witness ==
    /\ sys.fork = -1
    /\ gpc = "error"
    /\ result = Some(Err(<<"ForkFailed", 11>>))

\* What dispatch may have executed in a child copy, in order: nothing yet,
\* the child's hook alone (succeeded or failed), or the succeeded hook and
\* then execvp (which replaced the image or failed).
ChildCopyOrders ==
    {<<>>, <<<<"child_hook", TRUE>>>>, <<<<"child_hook", FALSE>>>>,
     <<<<"child_hook", TRUE>>, <<"execvp", TRUE>>>>,
     <<<<"child_hook", TRUE>>, <<"execvp", FALSE>>>>}

\* C11: in every child copy the child's hook runs at most once and before
\* execvp, execvp is called only after the hook succeeded, a replaced program
\* image has exactly one succeeded hook run before it, the parent's hook never
\* runs in a child copy, and the child's hook never runs in the parent.
C11_ChildSideOrdering ==
    /\ \A c \in Pids :
          /\ procs[c].ran \in ChildCopyOrders
          /\ procs[c].pc = "run" =>
                procs[c].ran = <<<<"child_hook", TRUE>>, <<"execvp", TRUE>>>>
          /\ procs[c].pc = "exec" => procs[c].ran = <<<<"child_hook", TRUE>>>>
    /\ hooks.child_in_parent = 0
    /\ hooks.child <= Cardinality({c \in Pids : procs[c].pc # "none"})

\* A child whose image was replaced, beside the parent that ran its own hook.
C11_Witness ==
    /\ pid # None
    /\ procs[pid[1]].pc = "run"
    /\ hooks.parent = 1
    /\ hooks.child = 1

\* C12: in a child copy whose execvp call failed, dispatch returns
\* Err(Unknown).
C12_ExecFailureIsUnknown ==
    \A c \in Pids :
        (procs[c].ran # <<>> /\ procs[c].ran[Len(procs[c].ran)] = <<"execvp", FALSE>>)
            => procs[c].dres = Some(Err(<<"Unknown">>))

\* C13: a read_line call on a pipe whose end is not the read end (not
\* assigned, or assigned as write end) ends with Err(PipeNotMarkedAsReadEnd)
\* and takes no byte out of the pipe.
C13_UnmarkedPipeIsAnError ==
    [][\A t \in TasksOf(strategy) :
          (/\ task[t].pc = "read"
           /\ task'[t] # task[t]
           /\ pipes[PipeOfTask(strategy, t)].end # Some("Read"))
          => (/\ task'[t].pc = "err"
              /\ task'[t].res = Some(Err(<<"PipeNotMarkedAsReadEnd">>))
              /\ buf' = buf)]_vars

\* C14: a call of check_state_nbl whose waitpid reports that the child has not
\* terminated leaves state, pid and exit code as they were and returns
\* Running; a call made when a finished state is recorded returns that state,
\* changes nothing and calls no waitpid, even one that would fail.
C14_CheckStateCaching ==
    [][sys'.api_tick # sys.api_tick =>
         /\ (state = Running /\ pid # None /\ Alive(pid[1]) /\ gpc' # "panic")
               => /\ state' = Running /\ pid' = pid /\ exit_code' = exit_code
                  /\ sys'.api_ret = Some(Running)
         /\ IsFinished(state)
               => /\ state' = state /\ pid' = pid /\ exit_code' = exit_code
                  /\ procs' = procs
                  /\ gpc' = gpc
                  /\ sys'.api_ret = Some(state)
                  /\ ~sys'.api_queried
                  /\ sys'.waitpid_after_reap = sys.waitpid_after_reap]_vars

\* A call returned the recorded finished state without asking the OS, after
\* an earlier call had recorded it.
C14_Witness ==
    /\ IsFinished(state)
    /\ sys.api_ret = Some(state)
    /\ ~sys.api_queried
    /\ pid # None /\ procs[pid[1]].pc = "reaped"

\* C15: when a waitpid call of the capture has failed, no part of the capture
\* panics, and the capture, once it has ended, has returned
\* Err(WaitpidFailed{errno}).
C15_WaitpidFailureIsReturned ==
    sys.waitpid_failed =>
        /\ \A t \in Tasks : task[t].pc # "panic"
        /\ gpc # "panic"
        /\ gpc \in {"returned", "error"} =>
               result = Some(Err(<<"WaitpidFailed", InjectedErrno("Waitpid")>>))

\* C16: with the separate strategy, once read() has failed in the stdout or
\* the stderr thread, read_all_bl eventually returns Err(ReadFailed{errno})
\* and no output, whatever the child program still writes.
C16_ReadFailureAborts ==
    (\E t \in {"stdout", "stderr"} : task[t].pc = "err")
        ~> (/\ gpc = "error"
            /\ result = Some(Err(<<"ReadFailed", InjectedErrno("Read")>>)))

\* C17: an output returned by the reader of the combined strategy has no
\* stdout_lines, no stderr_lines and strategy StdCombined; an output returned
\* by the reader of the separate strategy has stdout_lines and stderr_lines
\* (each a sequence, possibly empty), a combined sequence, and strategy
\* StdSeparately.
C17_OutputShape ==
    Returned =>
        /\ DOMAIN Output.stdcombined_lines = 1..Len(Output.stdcombined_lines)
        /\ strategy = StdCombined =>
              /\ Output.stdout_lines = None
              /\ Output.stderr_lines = None
              /\ Output.strategy = StdCombined
        /\ strategy = StdSeparately =>
              /\ Output.stdout_lines # None
              /\ Output.stderr_lines # None
              /\ DOMAIN Output.stdout_lines[1] = 1..Len(Output.stdout_lines[1])
              /\ DOMAIN Output.stderr_lines[1] = 1..Len(Output.stderr_lines[1])
              /\ Output.strategy = StdSeparately

\* An output of the separate strategy with an empty stdout sequence beside a
\* stderr line.
C17_Witness ==
    /\ Returned
    /\ strategy = StdSeparately
    /\ Output.stdout_lines = Some(<<>>)
    /\ Output.stderr_lines # None
    /\ Len(Output.stderr_lines[1]) = 1

\* What the first of two captures of the same program returned.
FirstOutput == sys.first[1].result[1][2]
SecondReturned == Returned /\ sys.first # None

\* C18 as claimed: the second capture of the same deterministic program with
\* the same strategy returns the same ProcessOutput as the first (which
\* holds no timestamps), however child and reader tasks were scheduled.
C18_SameOutputTwice ==
    SecondReturned => Output = FirstOutput

\* C18 as amended: the two captures return the same exit code, the same
\* stdout_lines and stderr_lines and the same strategy, and with the combined
\* strategy the same combined sequence.
C18_SameOutputTwiceButMergeOrder ==
    SecondReturned =>
        /\ Output.exit_code = FirstOutput.exit_code
        /\ Output.stdout_lines = FirstOutput.stdout_lines
        /\ Output.stderr_lines = FirstOutput.stderr_lines
        /\ Output.strategy = FirstOutput.strategy
        /\ strategy = StdCombined =>
              Output.stdcombined_lines = FirstOutput.stdcombined_lines

\* Two captures with the separate strategy of a program that writes a line to
\* each stream returned the two lines in different orders.
C18_Witness ==
    /\ SecondReturned
    /\ strategy = StdSeparately
    /\ Len(Output.stdcombined_lines) = 2
    /\ Len(FirstOutput.stdcombined_lines) = 2
    /\ Output.stdcombined_lines # FirstOutput.stdcombined_lines
    /\ Output.stdout_lines = FirstOutput.stdout_lines
    /\ Output.exit_code = 3

\* The threads that are between their waitpid call and the update of the
\* handle.
Polling == {t \in TasksOf(StdSeparately) : task[t].pc = "polled"}

\* C19: however the polls of the two threads interleave, at most one thread
\* is between its waitpid call and its update of the handle; once the child
\* is reaped, either the handle already records the finished state and the
\* exit code of the child's status, or the one thread whose waitpid returned
\* the pid is about to record it; no waitpid is called after the child was
\* reaped and no thread panics; each thread that left its loop saw the
\* finished state the handle records, and the output carries its exit code.
C19_SharedHandle ==
    /\ Cardinality(Polling) <= 1
    /\ sys.waitpid_after_reap = 0
    /\ \A t \in Tasks : task[t].pc # "panic"
    /\ (pid # None /\ TheChild.pc = "reaped") =>
          IF IsFinished(state)
          THEN /\ Polling = {}
               /\ exit_code = Some(WEXITSTATUS(TheChild.status))
          ELSE \E t \in Polling : task[t].res = Some(<<"waitpid", pid[1], TheChild.status>>)
    /\ \A t \in TasksOf(StdSeparately) :
          task[t].pc = "done" => (IsFinished(state) /\ task[t].res = Some(state))
    /\ Returned => Output.exit_code = WEXITSTATUS(TheChild.status)

\* Both threads left their loops on the same finished state, one of them
\* having reaped the child that exited with code 3, and the output is
\* returned.
C19_Witness ==
    /\ strategy = StdSeparately
    /\ Returned
    /\ TheChild.pc = "reaped"
    /\ state = FinishedError(3)
    /\ task["stdout"].res = Some(state)
    /\ task["stderr"].res = Some(state)
    /\ Output.exit_code = 3

\* What the read_line calls on the combined pipe returned so far, the bytes
\* they took out of the pipe, and the lines among the returned values.
Calls == task["combined"].lines
Consumed == SubSeq(AllBytes, 1, Len(AllBytes) - Len(buf[1]))
RECURSIVE LinesOf(_)
LinesOf(h) ==
    IF h = <<>> THEN <<>>
    ELSE (IF Head(h) = Ok(None) THEN <<>> ELSE <<Head(h)[2][1][2]>>) \o LinesOf(Tail(h))

\* The line of a call that has read its newline and has not returned yet.
PendingLine ==
    IF task["combined"].pc = "stamp" THEN <<task["combined"].chars>>
    ELSE IF task["combined"].pc = "body" /\ task["combined"].line # None
    THEN <<task["combined"].line[1][2]>>
    ELSE <<>>

\* The bytes after the last newline of bs.
Fragment(bs) ==
    SubSeq(bs, (IF NewlinesIn(bs) = {} THEN 0
                ELSE CHOOSE i \in NewlinesIn(bs) : \A j \in NewlinesIn(bs) : j <= i) + 1,
           Len(bs))

\* What holds of the calls made so far when none of them failed: the lines
\* returned are, byte for byte, the newline-terminated lines of the bytes
\* taken out of the pipe; until end of stream was returned the bytes
\* accumulated by a call are those after the last newline; end of stream
\* once returned is returned by every later call.
LinesAsWritten ==
    (\A i \in 1..Len(Calls) : IsOk(Calls[i]))
    => /\ LinesOf(Calls) \o PendingLine = TextLines(Consumed)
       /\ (task["combined"].pc = "read" /\ \A i \in 1..Len(Calls) : Calls[i] # Ok(None))
             => task["combined"].chars = Fragment(Consumed)
       /\ \A i, j \in 1..Len(Calls) : (i < j /\ Calls[i] = Ok(None)) => Calls[j] = Ok(None)

\* C20: read_line on the read end takes at most one byte per read out of the
\* pipe; the lines it returned are, byte for byte, the newline-terminated
\* lines of the bytes taken out of the pipe, without the newline, in order;
\* end of stream is returned without the fragment accumulated, and once
\* returned it is returned by every later call.
C20_ReadLineContract ==
    /\ []LinesAsWritten
    /\ [][Len(buf'[1]) >= Len(buf[1]) - 1]_vars

\* The lines the two threads handed over, with their instants, and the
\* instants among them.
StdoutStamped == task["stdout"].lines
StderrStamped == task["stderr"].lines
InstantsOf(ls) == {ls[i][1] : i \in 1..Len(ls)}
Instants == InstantsOf(StdoutStamped) \cup InstantsOf(StderrStamped)

\* The last line of ls that carries instant k.
LastAt(ls, k) ==
    ls[CHOOSE i \in 1..Len(ls) :
          ls[i][1] = k /\ \A j \in 1..Len(ls) : ls[j][1] = k => j <= i][2]

\* The line that is left for instant k: the last stderr line that carries it,
\* or else the last stdout line.
Survivor(k) ==
    IF k \in InstantsOf(StderrStamped) THEN LastAt(StderrStamped, k)
    ELSE LastAt(StdoutStamped, k)

C22_PacedOrder ==
    Returned => Output.stdcombined_lines = TextLines(AllBytes)

\* A capture with the separate strategy of a child that wrote a line to
\* stderr and then a different line to stdout, returned in that order.
C22_Witness ==
    /\ Returned /\ strategy = StdSeparately
    /\ wrote # <<>>
    /\ wrote[1][1] = "err" /\ wrote[Len(wrote)][1] = "out"
    /\ Output.stderr_lines = Some(<<<<97>>>>)
    /\ Output.stdout_lines = Some(<<<<>>>>)
    /\ Output.stdcombined_lines = <<<<97>>, <<>>>>

\* dispatch has returned the child's pid to the parent.
Dispatched == dres # None /\ IsOk(dres[1])

OnClosedDescriptor(r) == r # None /\ IsErr(r[1]) /\ Len(r[1][2]) = 2 /\ r[1][2][2] \in EBADF

\* The address space of process c is live before and after the step.
SameAddressSpace(c) == Alive(c) /\ procs'[c].pc \in {"hook", "exec", "run", "escaped"}

\* What the pipes look like in every state: a marker Read exists only in the
\* parent and Write only in the child; where the marking succeeded only the
\* descriptor of the own end is open; no call met a closed descriptor.
EndsAssigned ==
    /\ \A p \in PipeIds : pipes[p].end # Some("Write")
    /\ Dispatched =>
          \A p \in PipesOf(strategy) :
              pipes[p].end = Some("Read") /\ pipes[p].read_fd /\ ~pipes[p].write_fd
    /\ \A c \in Pids, p \in PipesOf(strategy) :
          /\ Alive(c) => procs[c].pipes[p].end # Some("Read")
          /\ procs[c].pc \in {"exec", "run"} =>
                procs[c].pipes[p].end = Some("Write") /\ ~procs[c].pipes[p].read_fd
          /\ procs[c].pc = "exec" => ChildHoldsWriteEnd(c, p)
    /\ ~OnClosedDescriptor(dres)
    /\ \A c \in Pids : ~OnClosedDescriptor(procs[c].dres)
    /\ \A t \in Tasks : ~OnClosedDescriptor(task[t].res)

C25_NoBusySpin ==
    \A t \in Tasks : <>[](task[t].pc # "body")

\* C26: the handle has an exit code exactly when its state is finished:
\* Some(0) with FinishedSuccess, Some(c) with c # 0 with FinishedError(c),
\* None with Ready and Running; so a reader whose loop has ended finds an
\* exit code to unwrap.
C26_ExitCodeIffFinished ==
    /\ state \in {Ready, Running} <=> exit_code = None
    /\ state = FinishedSuccess <=> exit_code = Some(0)
    /\ \A c \in AllExitCodes \ {0} : state = FinishedError(c) <=> exit_code = Some(c)
    /\ \A t \in Tasks : task[t].pc = "done" => exit_code # None

\* C27: the two threads read different pipes, each its own for its whole
\* run; a thread holds the lock of the shared ChildProcess only between its
\* waitpid call and the update that follows, never while it is inside
\* read_line, where it may block; so the lock, once taken, is released, and
\* a thread waiting for it is not kept waiting by a blocked holder.
C27_LockDiscipline ==
    /\ [](/\ PipeOfTask(StdSeparately, "stdout") # PipeOfTask(StdSeparately, "stderr")
          /\ \A t \in Tasks : sys.lock = Some(t) <=> task[t].pc = "polled"
          /\ \A t \in Tasks : task[t].pc \in {"read", "stamp", "done"} => sys.lock # Some(t))
    /\ (sys.lock # None) ~> (sys.lock = None)

\* The stdout thread waits for the lock, which the stderr thread holds.
C27_Witness ==
    /\ task["stdout"].pc = "body"
    /\ sys.lock = Some("stderr")
    /\ task["stderr"].pc = "polled"

\* The lines the child completed, in the order in which it wrote their
\* newlines: each is what it wrote to the stream of the newline since the
\* newline before on that stream.
RECURSIVE WrittenLinesUpTo(_)
WrittenLinesUpTo(n) ==
    IF n = 0 THEN <<>>
    ELSE WrittenLinesUpTo(n - 1)
         \o (IF wrote[n][2] = NL
             THEN <<Fragment(StreamBytesOf(SubSeq(wrote, 1, n - 1), wrote[n][1]))>>
             ELSE <<>>)
WrittenLines == WrittenLinesUpTo(Len(wrote))

\* C28: the combined lines returned by the reader of exec.rs are all lines
\* of both streams in the order in which the child wrote them, however its
\* writes to stdout and stderr interleave.
C28_CatchCombinedInWriteOrder ==
    (Returned /\ WellFormed(StreamBytes("out")) /\ WellFormed(StreamBytes("err")))
    => without_instant(Output.stdcombined_lines) = WrittenLines

\* The child program of CatchProgramSpec is blocked in a write to pipe q,
\* which is full, and the parent in a read of pipe p, which is empty.
ChildBlockedOn(q) ==
    /\ pid # None /\ procs[pid[1]].pc = "run"
    /\ wrote # <<>> /\ Len(wrote) < ProgramLen
    /\ StreamPipe(pid[1], wrote[1][1]) = q
    /\ Len(buf[q]) = PipeCap
ParentBlockedOn(p) ==
    \E t \in {"stdout", "stderr"} :
        /\ task[t].pc = "read"
        /\ PipeOfTask(StdSeparately, t) = p
        /\ read_char(p, FALSE).blocked

\* C29: the reader of exec.rs is never blocked in the read of one pipe while
\* the child is blocked in a write to the other pipe, which is full.
C29_CatchNeverCrossBlocked ==
    \A p, q \in PipeIds : ~(p # q /\ ParentBlockedOn(p) /\ ChildBlockedOn(q))

\* C30: when the reader of exec.rs has returned, the child has terminated and
\* was reaped by child_process_done, and the exit code of the output is the
\* one of the child's wait status.
C30_CatchExitCodeIsReal ==
    Returned => /\ TheChild.pc = "reaped"
                /\ Output.exit_code = WEXITSTATUS(TheChild.status)

====
